---- MODULE Spec2Model ----
(***************************************************************************)
(* Model of openr/decision/RibPolicy.cpp: RibPolicyStatement and RibPolicy *)
(* (construction and validation, match, applyAction, toThrift and the TTL  *)
(* lifecycle on the monotonic clock).                                      *)
(***************************************************************************)
EXTENDS Integers, Sequences, FiniteSets, TLC

VARIABLES
  now,          \* std::chrono::steady_clock::now(), in clock ticks
  pc,           \* position of the caller: "start", "stmt", "built", "failed"
  stmt,         \* a standalone RibPolicyStatement object (optional)
  policy,       \* the RibPolicy object (optional)
  route,        \* the RibUnicastEntry handed to match / applyAction
  op,           \* name of the last operation that ran
  ret,          \* boolean returned by the last match / applyAction / isActive
  err,          \* message of the OpenrError thrown by the last constructor
  input,        \* thrift definition given to the last constructor (optional)
  before,       \* the route as it was when the last operation was entered
  ttlLast,      \* <<instant, result>> of the last getTtlDuration (optional)
  ttlPrev,      \* <<instant, result>> of the getTtlDuration before that
  sawInactive,  \* isActive() returned false at some earlier call
  builtAt,      \* instant at which policy was constructed
  msg,          \* thrift::RibPolicy in flight, with where it came from
  copy          \* RibPolicy rebuilt from a serialized policy, with history

vars == <<now, pc, stmt, policy, route, op, ret, err, input, before,
          ttlLast, ttlPrev, sawInactive, builtAt, msg, copy>>

\* ------------------------------------------------------------------ bounds
\* Ticks of the steady clock per millisecond (the clock is finer than 1ms).
TicksPerMs == 2
\* Milliseconds per second, scaled down together with the clock.
MsPerSec == 2
\* Largest ttl_secs of a policy definition.
MaxTtlSecs == 2
\* Largest number of statements of a policy definition.
MaxStatements == 2

TicksPerSec == TicksPerMs * MsPerSec
MaxNow == (MaxTtlSecs + 1) * TicksPerSec

\* ---------------------------------------------------------------- optionals
\* An optional value (thrift optional field, absent object) is a set with at
\* most one element.
None == {}
Some(x) == {x}
Val(o) == CHOOSE x \in o : TRUE

\* ------------------------------------------------------------ input domain
\* thrift::IpPrefix values; addresses are four octets.
IpPrefix(a, l) == [prefixAddress |-> a, prefixLength |-> l]
T16 == IpPrefix(<<192, 168, 0, 0>>, 16)
T24 == IpPrefix(<<192, 168, 1, 0>>, 24)

\* folly::CIDRNetwork values (pairs of address and mask length).
N16 == <<<<192, 168, 0, 0>>, 16>>
N24 == <<<<192, 168, 1, 0>>, 24>>
N8 == <<<<10, 0, 0, 0>>, 8>>

\* net is a strictly longer prefix inside super
IsSubPrefix(net, super) ==
  /\ net[2] > super[2]
  /\ \A i \in 1..4 : (8 * i <= super[2]) => net[1][i] = super[1][i]

\* thrift::RibRouteActionWeight
WeightAction(d, m) == [default_weight |-> d, area_to_weight |-> m]
EastOnly(w) == [a \in {"east"} |-> w]
EastWest(e, w) == [a \in {"east", "west"} |-> IF a = "east" THEN e ELSE w]

SetWeights ==
  { None,
    Some(WeightAction(0, EastOnly(10))),
    Some(WeightAction(1, EastOnly(5))),
    Some(WeightAction(2, EastWest(0, 3))) }

PrefixLists ==
  { None, Some(<<>>), Some(<<T16>>), Some(<<T24>>), Some(<<T24, T16, T24>>) }

\* thrift::RibPolicyStatement definitions
StmtDefs ==
  { [name |-> "stmt", matcher |-> [prefixes |-> p], action |-> [set_weight |-> a]] :
      p \in PrefixLists, a \in SetWeights }

SeqsUpTo(S, n) == UNION { [1..k -> S] : k \in 0..n }

\* thrift::RibPolicy definitions
PolicyDefs ==
  { [statements |-> ss, ttl_secs |-> 30] : ss \in SeqsUpTo(StmtDefs, MaxStatements) }

\* definitions used by the TTL lifecycle: one valid statement, every ttl_secs
TtlDefs ==
  { [statements |-> <<[name |-> "stmt", matcher |-> [prefixes |-> Some(<<T16>>)],
                       action |-> [set_weight |-> Some(WeightAction(0, EastOnly(10)))]]>>,
     ttl_secs |-> t] : t \in (0 - 1)..MaxTtlSecs }

\* definitions used by serialization: valid statements with an empty, a
\* single and a repeated prefix list
RtStmtDefs ==
  { [name |-> "first", matcher |-> [prefixes |-> Some(<<T24, T16, T24>>)],
     action |-> [set_weight |-> Some(WeightAction(1, EastOnly(5)))]],
    [name |-> "second", matcher |-> [prefixes |-> Some(<<>>)],
     action |-> [set_weight |-> Some(WeightAction(0, EastOnly(10)))]] }

RtFirst == CHOOSE d \in RtStmtDefs : d.name = "first"
RtSecond == CHOOSE d \in RtStmtDefs : d.name = "second"

RtDefs ==
  { [statements |-> ss, ttl_secs |-> t] :
      ss \in {<<RtFirst>>, <<RtSecond, RtFirst>>}, t \in (0 - 1)..MaxTtlSecs }

\* thrift::NextHopThrift values
NextHop(addr, area, w) == [address |-> addr, area |-> area, weight |-> w]
NextHops ==
  { NextHop("fe80::1", Some("east"), 1),
    NextHop("fe80::1", Some("east"), 2),
    NextHop("fe80::2", Some("west"), 1),
    NextHop("fe80::3", None, 1) }

\* RibUnicastEntry values
Routes == { [prefix |-> p, nexthops |-> n] : p \in {N16, N24, N8}, n \in SUBSET NextHops }

\* ------------------------------------------------------- RibPolicyStatement
toIPNetwork(tPrefix) == <<tPrefix.prefixAddress, tPrefix.prefixLength>>

toIpPrefix(network) == [prefixAddress |-> network[1], prefixLength |-> network[2]]

\* the loop that inserts every listed prefix into prefixSet_
RECURSIVE InsertPrefixes(_, _)
InsertPrefixes(prefixes, prefixSet) ==
  IF prefixes = <<>> THEN prefixSet
  ELSE InsertPrefixes(Tail(prefixes), prefixSet \cup {toIPNetwork(Head(prefixes))})

\* faulty variant: an empty prefix list is rejected like an absent one
RibPolicyStatement_nonempty(tStmt) ==
  IF tStmt.action.set_weight = None
  THEN [error |-> "Missing policy_statement.action.set_weight attribute", obj |-> None]
  ELSE IF tStmt.matcher.prefixes = None \/ tStmt.matcher.prefixes = Some(<<>>)
  THEN [error |-> "Missing policy_statement.matcher.prefixes attribute", obj |-> None]
  ELSE [error |-> "",
        obj |-> Some([name_ |-> tStmt.name,
                      action_ |-> tStmt.action,
                      prefixSet_ |-> InsertPrefixes(Val(tStmt.matcher.prefixes), {})])]

\* RibPolicyStatement::RibPolicyStatement; error = "" when nothing is thrown
RibPolicyStatement(tStmt) ==
  IF tStmt.action.set_weight = None
  THEN [error |-> "Missing policy_statement.action.set_weight attribute", obj |-> None]
  ELSE IF tStmt.matcher.prefixes = None
  THEN [error |-> "Missing policy_statement.matcher.prefixes attribute", obj |-> None]
  ELSE [error |-> "",
        obj |-> Some([name_ |-> tStmt.name,
                      action_ |-> tStmt.action,
                      prefixSet_ |-> InsertPrefixes(Val(tStmt.matcher.prefixes), {})])]

\* every order in which a set can be iterated
Orderings(S) ==
  { q \in [1..Cardinality(S) -> S] : \A i, j \in 1..Cardinality(S) : q[i] = q[j] => i = j }

\* RibPolicyStatement::toThrift; the set of results, one per iteration order
\* of the unordered prefix set
RibPolicyStatement_toThrift(s) ==
  { [name |-> s.name_,
     action |-> s.action_,
     matcher |-> [prefixes |-> Some([i \in 1..Len(q) |-> toIpPrefix(q[i])])]] :
      q \in Orderings(s.prefixSet_) }

\* faulty variant: longest-prefix match, a listed prefix that contains the route's
RibPolicyStatement_match_lpm(s, r) ==
  \E n \in s.prefixSet_ : n = r.prefix \/ IsSubPrefix(r.prefix, n)

RibPolicyStatement_match(s, r) == Cardinality(s.prefixSet_ \cap {r.prefix}) > 0

\* faulty variant: an unmapped key yields 0 and not the given default
get_default_zero(map, key, dflt) == IF key \in DOMAIN map THEN map[key] ELSE 0

get_default(map, key, dflt) == IF key \in DOMAIN map THEN map[key] ELSE dflt

\* weight the action gives to one next-hop
NewWeight(weightAction, nh) ==
  IF nh.area # None
  THEN get_default(weightAction.area_to_weight, Val(nh.area), weightAction.default_weight)
  ELSE weightAction.default_weight

\* the loop over route.nexthops that fills newNexthops
RECURSIVE ReweightLoop(_, _, _)
ReweightLoop(weightAction, todo, newNexthops) ==
  IF todo = {} THEN newNexthops
  ELSE LET nh == CHOOSE n \in todo : TRUE
           new_weight == NewWeight(weightAction, nh)
       IN  IF new_weight > 0
           THEN ReweightLoop(weightAction, todo \ {nh},
                             newNexthops \cup {[nh EXCEPT !.weight = new_weight]})
           ELSE ReweightLoop(weightAction, todo \ {nh}, newNexthops)

\* faulty variant: the action is applied without the match test
RibPolicyStatement_applyAction_nomatch(s, r) ==
  [ret |-> TRUE,
   route |-> [r EXCEPT !.nexthops =
                ReweightLoop(Val(s.action_.set_weight), r.nexthops, {})]]

\* RibPolicyStatement::applyAction; the returned boolean and the route after
RibPolicyStatement_applyAction(s, r) ==
  IF ~RibPolicyStatement_match(s, r)
  THEN [ret |-> FALSE, route |-> r]
  ELSE [ret |-> TRUE,
        route |-> [r EXCEPT !.nexthops =
                     ReweightLoop(Val(s.action_.set_weight), r.nexthops, {})]]

\* ---------------------------------------------------------------- RibPolicy
\* the loop that constructs the statements in order; stops at the first throw
RECURSIVE PopulateStatements(_, _)
PopulateStatements(statements, policyStatements) ==
  IF statements = <<>> THEN [error |-> "", stmts |-> policyStatements]
  ELSE LET s == RibPolicyStatement(Head(statements))
       IN  IF s.error # "" THEN [error |-> s.error, stmts |-> <<>>]
           ELSE PopulateStatements(Tail(statements), Append(policyStatements, Val(s.obj)))

\* faulty variant: statements that fail validation are skipped, not propagated
RECURSIVE PopulateValid(_, _)
PopulateValid(statements, policyStatements) ==
  IF statements = <<>> THEN policyStatements
  ELSE LET s == RibPolicyStatement(Head(statements))
       IN  IF s.error # "" THEN PopulateValid(Tail(statements), policyStatements)
           ELSE PopulateValid(Tail(statements), Append(policyStatements, Val(s.obj)))

RibPolicy_skipInvalid(tPolicy, t) ==
  IF tPolicy.statements = <<>>
  THEN [error |-> "Missing policy.statements attribute", obj |-> None]
  ELSE [error |-> "",
        obj |-> Some([policyStatements_ |-> PopulateValid(tPolicy.statements, <<>>),
                      validUntilTs_ |-> t + tPolicy.ttl_secs * TicksPerSec])]

\* RibPolicy::RibPolicy, constructed at instant t
RibPolicy(tPolicy, t) ==
  LET validUntilTs == t + tPolicy.ttl_secs * TicksPerSec
  IN  IF tPolicy.statements = <<>>
      THEN [error |-> "Missing policy.statements attribute", obj |-> None]
      ELSE LET p == PopulateStatements(tPolicy.statements, <<>>)
           IN  IF p.error # "" THEN [error |-> p.error, obj |-> None]
               ELSE [error |-> "",
                     obj |-> Some([policyStatements_ |-> p.stmts,
                                   validUntilTs_ |-> validUntilTs])]

\* std::chrono::duration_cast to a coarser period: truncates toward zero
duration_cast(d, period) == IF d >= 0 THEN d \div period ELSE -((-d) \div period)

\* faulty variant: the statements are emitted in reverse order
RibPolicy_toThrift_reversed(p, t) ==
  { [statements |-> [i \in 1..Len(ss) |-> ss[Len(ss) + 1 - i]],
     ttl_secs |-> duration_cast(p.validUntilTs_ - t, TicksPerSec)] :
      ss \in { q \in [1..Len(p.policyStatements_) ->
                       UNION { RibPolicyStatement_toThrift(p.policyStatements_[i]) :
                                 i \in 1..Len(p.policyStatements_) }] :
                 \A i \in 1..Len(p.policyStatements_) :
                   q[i] \in RibPolicyStatement_toThrift(p.policyStatements_[i]) } }

\* faulty variant: the remaining TTL is rounded up to the next whole second
RibPolicy_toThrift_roundUp(p, t) ==
  { [statements |-> ss,
     ttl_secs |-> duration_cast(p.validUntilTs_ - t + TicksPerSec - 1, TicksPerSec)] :
      ss \in { q \in [1..Len(p.policyStatements_) ->
                       UNION { RibPolicyStatement_toThrift(p.policyStatements_[i]) :
                                 i \in 1..Len(p.policyStatements_) }] :
                 \A i \in 1..Len(p.policyStatements_) :
                   q[i] \in RibPolicyStatement_toThrift(p.policyStatements_[i]) } }

\* RibPolicy::toThrift at instant t; one result per iteration order of the
\* statements' prefix sets
RibPolicy_toThrift(p, t) ==
  { [statements |-> ss,
     ttl_secs |-> duration_cast(p.validUntilTs_ - t, TicksPerSec)] :
      ss \in { q \in [1..Len(p.policyStatements_) ->
                       UNION { RibPolicyStatement_toThrift(p.policyStatements_[i]) :
                                 i \in 1..Len(p.policyStatements_) }] :
                 \A i \in 1..Len(p.policyStatements_) :
                   q[i] \in RibPolicyStatement_toThrift(p.policyStatements_[i]) } }

\* faulty variant: the remaining TTL is clamped at zero
RibPolicy_getTtlDuration_clamped(p, t) ==
  IF p.validUntilTs_ - t > 0 THEN duration_cast(p.validUntilTs_ - t, TicksPerMs) ELSE 0

\* RibPolicy::getTtlDuration at instant t, in milliseconds
RibPolicy_getTtlDuration(p, t) == duration_cast(p.validUntilTs_ - t, TicksPerMs)

\* faulty variant: a remaining TTL of zero milliseconds still counts as active
RibPolicy_isActive_inclusive(p, t) == RibPolicy_getTtlDuration(p, t) >= 0

RibPolicy_isActive(p, t) == RibPolicy_getTtlDuration(p, t) > 0

RECURSIVE MatchLoop(_, _)
MatchLoop(statements, r) ==
  IF statements = <<>> THEN FALSE
  ELSE IF RibPolicyStatement_match(Head(statements), r) THEN TRUE
  ELSE MatchLoop(Tail(statements), r)

RibPolicy_match(p, r) == MatchLoop(p.policyStatements_, r)

RECURSIVE ApplyLoop(_, _)
ApplyLoop(statements, r) ==
  IF statements = <<>> THEN [ret |-> FALSE, route |-> r]
  ELSE LET a == RibPolicyStatement_applyAction(Head(statements), r)
       IN  IF a.ret THEN [ret |-> TRUE, route |-> a.route]
           ELSE ApplyLoop(Tail(statements), a.route)

\* faulty variant: every matching statement is applied, one after the other
RECURSIVE ApplyAll(_, _, _)
ApplyAll(statements, r, matched) ==
  IF statements = <<>> THEN [ret |-> matched, route |-> r]
  ELSE LET a == RibPolicyStatement_applyAction(Head(statements), r)
       IN  ApplyAll(Tail(statements), a.route, matched \/ a.ret)

RibPolicy_applyAction_cumulative(p, r) == ApplyAll(p.policyStatements_, r, FALSE)

RibPolicy_applyAction(p, r) == ApplyLoop(p.policyStatements_, r)

\* ------------------------------------------------------------------ actions
InitCommon ==
  /\ now = 0
  /\ pc = "start"
  /\ stmt = None
  /\ policy = None
  /\ op = "none"
  /\ ret = FALSE
  /\ err = ""
  /\ input = None
  /\ before = route
  /\ ttlLast = None
  /\ ttlPrev = None
  /\ sawInactive = FALSE
  /\ builtAt = 0
  /\ msg = None
  /\ copy = None

\* the route every TTL and serialization run holds
FixedRoute == [prefix |-> N16, nexthops |-> {}]

Init == route \in Routes /\ InitCommon

InitTtl == route = FixedRoute /\ InitCommon

\* the state after a policy was constructed from a valid definition at 0
InitRt ==
  /\ route = FixedRoute
  /\ now = 0
  /\ \E tPolicy \in RtDefs :
       /\ policy = RibPolicy(tPolicy, 0).obj
       /\ input = Some(tPolicy)
  /\ pc = "built"
  /\ stmt = None
  /\ op = "RibPolicy"
  /\ ret = FALSE
  /\ err = ""
  /\ before = route
  /\ ttlLast = None
  /\ ttlPrev = None
  /\ sawInactive = FALSE
  /\ builtAt = 0
  /\ msg = None
  /\ copy = None

\* a standalone RibPolicyStatement is constructed from a definition
ConstructStatement(tStmt) ==
  /\ pc = "start"
  /\ LET r == RibPolicyStatement(tStmt)
     IN  /\ stmt' = r.obj
         /\ err' = r.error
         /\ pc' = IF r.error = "" THEN "stmt" ELSE "failed"
  /\ op' = "RibPolicyStatement"
  /\ input' = Some(tStmt)
  /\ UNCHANGED <<now, policy, route, ret, before, ttlLast, ttlPrev, sawInactive,
                 builtAt, msg, copy>>

\* a RibPolicy is constructed from a definition at the current instant
ConstructPolicy(tPolicy) ==
  /\ pc = "start"
  /\ LET r == RibPolicy(tPolicy, now)
     IN  /\ policy' = r.obj
         /\ err' = r.error
         /\ pc' = IF r.error = "" THEN "built" ELSE "failed"
  /\ op' = "RibPolicy"
  /\ input' = Some(tPolicy)
  /\ builtAt' = now
  /\ UNCHANGED <<now, stmt, route, ret, before, ttlLast, ttlPrev, sawInactive,
                 msg, copy>>

StatementMatch ==
  /\ pc = "stmt"
  /\ op' = "RibPolicyStatement::match"
  /\ ret' = RibPolicyStatement_match(Val(stmt), route)
  /\ before' = route
  /\ UNCHANGED <<now, pc, stmt, policy, route, err, input, ttlLast, ttlPrev,
                 sawInactive, builtAt, msg, copy>>

StatementApplyAction ==
  /\ pc = "stmt"
  /\ op' = "RibPolicyStatement::applyAction"
  /\ LET a == RibPolicyStatement_applyAction(Val(stmt), route)
     IN  ret' = a.ret /\ route' = a.route
  /\ before' = route
  /\ UNCHANGED <<now, pc, stmt, policy, err, input, ttlLast, ttlPrev,
                 sawInactive, builtAt, msg, copy>>

PolicyMatch ==
  /\ pc = "built"
  /\ op' = "RibPolicy::match"
  /\ ret' = RibPolicy_match(Val(policy), route)
  /\ before' = route
  /\ UNCHANGED <<now, pc, stmt, policy, route, err, input, ttlLast, ttlPrev,
                 sawInactive, builtAt, msg, copy>>

PolicyApplyAction ==
  /\ pc = "built"
  /\ op' = "RibPolicy::applyAction"
  /\ LET a == RibPolicy_applyAction(Val(policy), route)
     IN  ret' = a.ret /\ route' = a.route
  /\ before' = route
  /\ UNCHANGED <<now, pc, stmt, policy, err, input, ttlLast, ttlPrev,
                 sawInactive, builtAt, msg, copy>>

\* the steady clock advances by one tick; the last return value is consumed
Tick ==
  /\ now < MaxNow
  /\ now' = now + 1
  /\ op' = "tick"
  /\ ret' = FALSE
  /\ UNCHANGED <<pc, stmt, policy, route, err, input, before, ttlLast, ttlPrev,
                 sawInactive, builtAt, msg, copy>>

GetTtlDuration ==
  /\ pc = "built"
  /\ op' = "RibPolicy::getTtlDuration"
  /\ ret' = FALSE
  /\ ttlPrev' = ttlLast
  /\ ttlLast' = Some(<<now, RibPolicy_getTtlDuration(Val(policy), now)>>)
  /\ UNCHANGED <<now, pc, stmt, policy, route, err, input, before, sawInactive,
                 builtAt, msg, copy>>

IsActive ==
  /\ pc = "built"
  /\ op' = "RibPolicy::isActive"
  /\ ret' = RibPolicy_isActive(Val(policy), now)
  /\ sawInactive' = (sawInactive \/ ~RibPolicy_isActive(Val(policy), now))
  /\ UNCHANGED <<now, pc, stmt, policy, route, err, input, before, ttlLast,
                 ttlPrev, builtAt, msg, copy>>

\* the policy, or the rebuilt copy, is serialized; the result is in flight
ToThrift(fromCopy) ==
  /\ pc = "built"
  /\ msg = None
  /\ fromCopy => copy # None
  /\ LET src == IF fromCopy THEN Val(copy).obj ELSE Val(policy)
     IN  \E t \in RibPolicy_toThrift(src, now) :
           msg' = Some([thrift |-> t, ts |-> now, from |-> src,
                        clean |-> IF fromCopy THEN Val(copy).clean ELSE TRUE,
                        chained |-> fromCopy])
  /\ op' = "RibPolicy::toThrift"
  /\ ret' = FALSE
  /\ UNCHANGED <<now, pc, stmt, policy, route, err, input, before, ttlLast,
                 ttlPrev, sawInactive, builtAt, copy>>

\* a RibPolicy is constructed from the serialized policy in flight
Reconstruct ==
  /\ msg # None
  /\ LET m == Val(msg)
         r == RibPolicy(m.thrift, now)
     IN  /\ err' = r.error
         /\ copy' = IF r.error # "" THEN copy
                    ELSE Some([obj |-> Val(r.obj),
                               from |-> m.from.policyStatements_,
                               clean |-> (m.clean /\ now = m.ts),
                               chained |-> m.chained])
  /\ msg' = None
  /\ op' = "reconstruct"
  /\ ret' = FALSE
  /\ UNCHANGED <<now, pc, stmt, policy, route, input, before, ttlLast, ttlPrev,
                 sawInactive, builtAt>>

\* evaluation of statements and policies on routes
Next ==
  \/ pc = "start" /\ \E tStmt \in StmtDefs : ConstructStatement(tStmt)
  \/ pc = "start" /\ \E tPolicy \in PolicyDefs : ConstructPolicy(tPolicy)
  \/ StatementMatch
  \/ StatementApplyAction
  \/ PolicyMatch
  \/ PolicyApplyAction

Spec == Init /\ [][Next]_vars

\* the TTL lifecycle of one policy
NextTtl ==
  \/ Tick
  \/ pc = "start" /\ \E tPolicy \in TtlDefs : ConstructPolicy(tPolicy)
  \/ GetTtlDuration
  \/ IsActive

SpecTtl == InitTtl /\ [][NextTtl]_vars

\* serialization and reconstruction of a policy over time
NextRt ==
  \/ Tick
  \/ \E fromCopy \in BOOLEAN : ToThrift(fromCopy)
  \/ Reconstruct

SpecRt == InitRt /\ [][NextRt]_vars

\* ------------------------------------------------------------------- claims
\* the prefixes a thrift statement definition lists, as networks
ListedPrefixes(tStmt) ==
  { <<Val(tStmt.matcher.prefixes)[i].prefixAddress,
      Val(tStmt.matcher.prefixes)[i].prefixLength>> :
      i \in 1..Len(Val(tStmt.matcher.prefixes)) }

\* the weight a statement definition's action assigns to a next-hop
DefinedWeight(tStmt, nh) ==
  LET w == Val(tStmt.action.set_weight)
  IN  IF nh.area # None /\ Val(nh.area) \in DOMAIN w.area_to_weight
      THEN w.area_to_weight[Val(nh.area)]
      ELSE w.default_weight

\* the next-hop set a statement definition's action makes of a next-hop set
Reweighted(tStmt, nhs) ==
  { [nh EXCEPT !.weight = DefinedWeight(tStmt, nh)] :
      nh \in { n \in nhs : DefinedWeight(tStmt, n) > 0 } }

\* a statement definition that passes validation
ValidStmtDef(tStmt) ==
  tStmt.action.set_weight # None /\ tStmt.matcher.prefixes # None

\* indices of the policy definition's statements that list the prefix
MatchingStmts(tPolicy, prefix) ==
  { i \in 1..Len(tPolicy.statements) : prefix \in ListedPrefixes(tPolicy.statements[i]) }

\* C1: RibPolicy::applyAction returns true iff some statement's prefix set
\* holds the route's prefix, and then the route is exactly what the
\* lowest-indexed such statement alone makes of it; later statements, also
\* matching ones, change nothing.
C1_FirstMatchWins ==
  (op = "RibPolicy::applyAction") =>
    LET d == Val(input)
        m == MatchingStmts(d, before.prefix)
    IN  /\ ret = (m # {})
        /\ route.prefix = before.prefix
        /\ m # {} =>
             LET f == CHOOSE i \in m : \A j \in m : i <= j
             IN  /\ route.nexthops = Reweighted(d.statements[f], before.nexthops)
                 /\ route = RibPolicyStatement_applyAction(
                              Val(policy).policyStatements_[f], before).route

\* C1 witness: two statements match the route and the applied result is not
\* what the second one would have produced.
C1_Witness ==
  /\ op = "RibPolicy::applyAction"
  /\ ret
  /\ Cardinality(MatchingStmts(Val(input), before.prefix)) = 2
  /\ route.nexthops # Reweighted(Val(input).statements[2], before.nexthops)
  /\ route.nexthops # {}

\* C2: a matching RibPolicyStatement::applyAction returns true and replaces
\* the next-hops by the reweighted copies of those whose computed weight is
\* positive; a next-hop whose computed weight is 0 is absent and no
\* next-hop of the result has weight 0.
C2_Reweight ==
  (op = "RibPolicyStatement::applyAction" /\ before.prefix \in ListedPrefixes(Val(input))) =>
    /\ ret
    /\ route.nexthops = Reweighted(Val(input), before.nexthops)
    /\ \A nh \in route.nexthops : nh.weight # 0
    /\ \A nh \in before.nexthops :
         DefinedWeight(Val(input), nh) = 0 =>
           ~\E k \in route.nexthops : k.address = nh.address /\ k.area = nh.area

\* C2 witness: a matching statement dropped one next-hop, and kept one with
\* a mapped area and one without an area.
C2_Witness ==
  /\ op = "RibPolicyStatement::applyAction"
  /\ ret
  /\ \E nh \in before.nexthops : DefinedWeight(Val(input), nh) = 0
  /\ \E nh \in route.nexthops : nh.area = None
  /\ \E nh \in route.nexthops :
       nh.area # None /\ nh.weight # Val(Val(input).action.set_weight).default_weight
  /\ Cardinality(route.nexthops) < Cardinality(before.nexthops)

\* C3: match is exact membership in the statement's prefix set (a sub- or
\* super-prefix of a member does not match); a statement that does not
\* match returns false and leaves the route alone, and so does a policy
\* none of whose statements matches.
C3_ExactMatchFrame ==
  /\ (op = "RibPolicyStatement::match") =>
       /\ ret = (route.prefix \in ListedPrefixes(Val(input)))
       /\ route = before
  /\ (op = "RibPolicyStatement::applyAction"
        /\ before.prefix \notin ListedPrefixes(Val(input))) =>
       (~ret /\ route = before)
  /\ (op = "RibPolicy::applyAction" /\ MatchingStmts(Val(input), before.prefix) = {}) =>
       (~ret /\ route = before)
  /\ (op = "RibPolicy::match") =>
       /\ ret = (MatchingStmts(Val(input), route.prefix) # {})
       /\ route = before

\* C3 witness: applyAction of a statement that lists a super-prefix of the
\* route's prefix returned false on a route that has next-hops.
C3_Witness ==
  /\ op = "RibPolicyStatement::applyAction"
  /\ ~ret
  /\ \E n \in ListedPrefixes(Val(input)) : IsSubPrefix(before.prefix, n)
  /\ before.nexthops # {}
  /\ route = before

\* C4: constructing a statement throws when set_weight or prefixes is
\* absent; constructing a policy throws when it has no statement or when
\* any of its statements fails validation; a throwing constructor leaves no
\* object, and a constructor that succeeds had none of these conditions.
C4_AllOrNothing ==
  /\ (op = "RibPolicyStatement") =>
       /\ ~ValidStmtDef(Val(input)) => (err # "" /\ stmt = None /\ pc = "failed")
       /\ (err = "") = (stmt # None)
  /\ (op = "RibPolicy") =>
       LET d == Val(input)
       IN  /\ (d.statements = <<>>
                 \/ \E i \in 1..Len(d.statements) : ~ValidStmtDef(d.statements[i]))
                => (err # "" /\ policy = None /\ pc = "failed")
           /\ (err = "") = (policy # None)
           /\ policy # None => Len(Val(policy).policyStatements_) = Len(d.statements)

\* C4 witness: a policy whose first statement is valid and whose second is
\* not was rejected.
C4_Witness ==
  /\ op = "RibPolicy"
  /\ Len(Val(input).statements) = 2
  /\ ValidStmtDef(Val(input).statements[1])
  /\ ~ValidStmtDef(Val(input).statements[2])
  /\ err # ""
  /\ policy = None

\* C5 (as stated): every successfully constructed statement, standalone or
\* inside a policy, has a non-empty prefix match set.
C5_NonEmptyMatchSet ==
  /\ stmt # None => Val(stmt).prefixSet_ # {}
  /\ policy # None =>
       \A i \in 1..Len(Val(policy).policyStatements_) :
         Val(policy).policyStatements_[i].prefixSet_ # {}

\* C5 (amended): a successfully constructed statement came from a definition
\* whose matcher.prefixes was present and its match set holds the networks
\* of the listed prefixes, so it is empty exactly when the list is empty;
\* an absent matcher.prefixes is rejected, while a present but empty list
\* is accepted and gives an empty match set.
C5_MatchSetIsListed ==
  /\ (op = "RibPolicyStatement") =>
       LET d == Val(input)
       IN  /\ d.matcher.prefixes = None => (err # "" /\ stmt = None)
           /\ stmt # None =>
                /\ d.matcher.prefixes # None
                /\ Val(stmt).prefixSet_ = ListedPrefixes(d)
                /\ (Val(stmt).prefixSet_ = {}) = (Val(d.matcher.prefixes) = <<>>)
           /\ (d.matcher.prefixes = Some(<<>>) /\ d.action.set_weight # None) =>
                (err = "" /\ stmt # None /\ Val(stmt).prefixSet_ = {})
  /\ policy # None =>
       \A i \in 1..Len(Val(policy).policyStatements_) :
         /\ Val(input).statements[i].matcher.prefixes # None
         /\ Val(policy).policyStatements_[i].prefixSet_ =
              ListedPrefixes(Val(input).statements[i])

\* C5 witness: a statement was constructed from a present, empty list.
C5_Witness ==
  /\ op = "RibPolicyStatement"
  /\ Val(input).matcher.prefixes = Some(<<>>)
  /\ stmt # None
  /\ Val(stmt).prefixSet_ = {}

\* the end-to-end scenario: one statement for 192.168.0.0/16 with
\* default_weight 0 and area_to_weight {east: 10}, ttl 30s
ScenarioPolicy ==
  [statements |-> <<[name |-> "stmt", matcher |-> [prefixes |-> Some(<<T16>>)],
                     action |-> [set_weight |-> Some(WeightAction(0, EastOnly(10)))]]>>,
   ttl_secs |-> 30]

ScenarioNexthops ==
  { NextHop("fe80::1", Some("east"), 1), NextHop("fe80::2", Some("west"), 1) }

\* C6 (as stated): in the scenario, applyAction on the route 192.168.1.0/24
\* returns true and leaves exactly the east next-hop with weight 10.
C6_ScenarioAsStated ==
  (op = "RibPolicy::applyAction" /\ input = Some(ScenarioPolicy)
     /\ before = [prefix |-> N24, nexthops |-> ScenarioNexthops]) =>
    (ret /\ route.nexthops = { NextHop("fe80::1", Some("east"), 10) })

\* C6 (amended): in the scenario, applyAction on the route 192.168.1.0/24
\* returns false and leaves the route as it was, because 192.168.1.0/24 is
\* not a member of {192.168.0.0/16}; on the route 192.168.0.0/16 with the
\* same next-hops it returns true and leaves exactly the east next-hop with
\* weight 10.
C6_Scenario ==
  (op = "RibPolicy::applyAction" /\ input = Some(ScenarioPolicy)) =>
    /\ before = [prefix |-> N24, nexthops |-> ScenarioNexthops] =>
         (~ret /\ route = before)
    /\ before = [prefix |-> N16, nexthops |-> ScenarioNexthops] =>
         (ret /\ route = [prefix |-> N16,
                          nexthops |-> { NextHop("fe80::1", Some("east"), 10) }])

\* C6 witness: the scenario's policy was applied to the 192.168.1.0/24 route.
C6_Witness ==
  /\ op = "RibPolicy::applyAction"
  /\ input = Some(ScenarioPolicy)
  /\ before = [prefix |-> N24, nexthops |-> ScenarioNexthops]
  /\ ~ret

\* validUntil as the definition and the construction instant give it
ValidUntil == builtAt + Val(input).ttl_secs * TicksPerSec

\* C7 (as stated): isActive() is true iff validUntil is strictly after the
\* current instant, at the resolution of the clock; a policy with
\* ttl_secs <= 0 is never active.
C7_ActiveIffStrictlyBefore ==
  (op = "RibPolicy::isActive") =>
    /\ Val(policy).validUntilTs_ = ValidUntil
    /\ ret = (ValidUntil > now)
    /\ Val(input).ttl_secs <= 0 => ~ret

\* C7 (amended): validUntil is the construction instant plus ttl_secs, and
\* isActive() is true iff at least one whole millisecond remains until
\* validUntil (the remaining time is truncated to milliseconds, so a
\* positive remainder below one millisecond reads as inactive); a policy
\* with ttl_secs <= 0 is never active.
C7_ActiveIffWholeMs ==
  (op = "RibPolicy::isActive") =>
    /\ Val(policy).validUntilTs_ = ValidUntil
    /\ ret = (ValidUntil - now >= TicksPerMs)
    /\ Val(input).ttl_secs <= 0 => ~ret

\* C7 witness: isActive() was called with a positive remainder below one
\* millisecond, on a policy constructed after the clock's origin.
C7_Witness ==
  /\ op = "RibPolicy::isActive"
  /\ builtAt > 0
  /\ ValidUntil - now > 0
  /\ ValidUntil - now < TicksPerMs
  /\ ~ret

LastTtl == Val(ttlLast)
PrevTtl == Val(ttlPrev)

\* the parts of C9 that hold as stated
C9_Common ==
  /\ (op = "RibPolicy::isActive" /\ now = builtAt /\ Val(input).ttl_secs > 0) => ret
  /\ (op = "RibPolicy::isActive" /\ ret) => ~sawInactive

\* C9 (as stated): isActive() is true right after construction with a
\* positive ttl_secs, is false only once the TTL has elapsed and never
\* true again after it was false; of two getRemainingTtl() calls at
\* t1 < t2 the second result is strictly smaller, and it is negative after
\* expiry.
C9_TtlMonotoneStrict ==
  /\ C9_Common
  /\ (op = "RibPolicy::isActive" /\ ~ret) => now >= ValidUntil
  /\ (ttlPrev # None /\ PrevTtl[1] < LastTtl[1]) => LastTtl[2] < PrevTtl[2]
  /\ (ttlLast # None /\ LastTtl[1] > ValidUntil) => LastTtl[2] < 0

\* C9 (amended): isActive() is true right after construction with a
\* positive ttl_secs, is false only once less than one millisecond of the
\* TTL remains and never true again after it was false; of two
\* getRemainingTtl() calls at t1 < t2 the second result is not larger, and
\* strictly smaller when t2 - t1 is at least two milliseconds (truncation
\* toward zero reads every remainder within one millisecond of validUntil,
\* before or after it, as 0); the result is not clamped: it is negative
\* once validUntil is a millisecond or more in the past.
C9_TtlMonotone ==
  /\ C9_Common
  /\ (op = "RibPolicy::isActive" /\ ~ret) => ValidUntil - now < TicksPerMs
  /\ (ttlPrev # None /\ PrevTtl[1] < LastTtl[1]) => LastTtl[2] <= PrevTtl[2]
  /\ (ttlPrev # None /\ LastTtl[1] - PrevTtl[1] >= 2 * TicksPerMs) =>
       LastTtl[2] < PrevTtl[2]
  /\ (ttlLast # None /\ LastTtl[1] - ValidUntil >= TicksPerMs) => LastTtl[2] < 0

\* C9 witness: two getRemainingTtl() calls at different instants in the
\* same millisecond, the second after expiry, and isActive() has returned
\* false before a later isActive() call.
C9_Witness ==
  /\ ttlPrev # None
  /\ PrevTtl[1] < LastTtl[1]
  /\ LastTtl[2] = PrevTtl[2]
  /\ LastTtl[1] > ValidUntil
  /\ Val(input).ttl_secs > 0
  /\ op = "RibPolicy::isActive"
  /\ sawInactive

\* C8: a policy rebuilt from a serialized policy is constructed without
\* error and has the same statements in the same order, each with the same
\* prefix set, action and name; the serialized ttl_secs is the whole
\* seconds of validUntil - now at serialization, not the configured value.
C8_RoundTrip ==
  /\ (op = "reconstruct") =>
       /\ err = ""
       /\ copy # None
       /\ LET q == Val(copy).obj.policyStatements_
              f == Val(copy).from
          IN  /\ Len(q) = Len(f)
              /\ \A i \in 1..Len(f) :
                   /\ q[i].prefixSet_ = f[i].prefixSet_
                   /\ q[i].action_ = f[i].action_
                   /\ q[i].name_ = f[i].name_
                   /\ q[i].prefixSet_ = ListedPrefixes(Val(input).statements[i])
                   /\ q[i].name_ = Val(input).statements[i].name
  /\ msg # None =>
       LET m == Val(msg)
           r == m.from.validUntilTs_ - m.ts
           secs == m.thrift.ttl_secs
       IN  /\ r >= 0 => (secs * TicksPerSec <= r /\ r < (secs + 1) * TicksPerSec)
           /\ r < 0 => ((secs - 1) * TicksPerSec < r /\ r <= secs * TicksPerSec)
           /\ Len(m.thrift.statements) = Len(m.from.policyStatements_)

\* C8 witness: a policy of two statements, one with two prefixes, was
\* rebuilt from a serialization taken mid-second, so that its validUntil is
\* earlier than the original's.
C8_Witness ==
  /\ op = "reconstruct"
  /\ copy # None
  /\ Len(Val(copy).obj.policyStatements_) = 2
  /\ Cardinality(Val(copy).obj.policyStatements_[2].prefixSet_) = 2
  /\ Val(copy).clean
  /\ now > 0
  /\ Val(copy).obj.validUntilTs_ < Val(policy).validUntilTs_
  /\ Val(copy).obj.validUntilTs_ > now

\* C10: a policy rebuilt, over any chain of serialize/reconstruct steps
\* each taken without a clock advance in between, is never active at an
\* instant at which the original is not; a serialization of a policy that
\* is no longer active carries ttl_secs <= 0.
C10_NeverExtendsLife ==
  /\ (copy # None /\ Val(copy).clean /\ RibPolicy_isActive(Val(copy).obj, now)) =>
       RibPolicy_isActive(Val(policy), now)
  /\ (msg # None /\ ~RibPolicy_isActive(Val(msg).from, Val(msg).ts)) =>
       Val(msg).thrift.ttl_secs <= 0

\* C10 witness: at the end of a chain of two clean steps the copy has
\* expired before the original, which has now expired too.
C10_Witness ==
  /\ copy # None
  /\ Val(copy).clean
  /\ Val(copy).chained
  /\ Val(input).ttl_secs > 0
  /\ Val(copy).obj.validUntilTs_ < Val(policy).validUntilTs_
  /\ ~RibPolicy_isActive(Val(policy), now)

====
